---- MODULE Spec2Model ----
(***************************************************************************)
(* Transfer engine of the bank system: BankAPI.transfer_money              *)
(* (src/lab_6/api1.py) running on the sqlite store through the             *)
(* db_connection decorator and DatabaseConnection (src/lab_6/models.py).   *)
(*                                                                         *)
(* Numbers.  Balances and amounts are REAL columns / Python floats; they   *)
(* are modelled as exact integers.  Rates are held in halves (the value 2  *)
(* stands for 1.0), and every requested amount is a multiple of 4, so the  *)
(* quotient amount / rate * rate of the code is an exact integer here.     *)
(***************************************************************************)
EXTENDS Integers, Sequences, FiniteSets, TLC

\* ------------------------------------------------------------------ bounds
\* Number of transfer_money calls made one after the other in Spec.
MaxCalls == 1

\* ------------------------------------------------------------ input domains
Procs == {1, 2}

\* Python None (also the value of a local that is not bound yet).
None == [none |-> TRUE]

AccountIds == {1, 2, 3}
\* 999 is the id the tests use for an account that does not exist.
RequestIds == AccountIds \cup {999}
Amounts == {-4, 0, 4, 8}
Currencies == {"USD", "EUR", "GBP"}

RequiredFields == {"sender_account_id", "receiver_account_id", "amount", "currency"}

WellFormedRequests ==
    [sender_account_id : RequestIds, receiver_account_id : RequestIds,
     amount : Amounts, currency : Currencies]

\* A dict that lacks exactly one of the four keys.
Without(data, f) == [k \in (DOMAIN data) \ {f} |-> data[k]]

MalformedRequests ==
    { Without(data, f) : data \in [sender_account_id : {1}, receiver_account_id : {2, 999},
                                   amount : {4, 8, 12}, currency : {"USD"}],
                         f \in RequiredFields }

Requests == WellFormedRequests \cup MalformedRequests

\* Requests of two clients that run at the same time.
ConcurrentRequests ==
    [sender_account_id : AccountIds, receiver_account_id : AccountIds,
     amount : {4, 8}, currency : {"USD", "EUR"}]

\* -------------------------------------------------------------- the store
\* Bank, User, Account and "Transaction" tables as create_database lays
\* them out.  NULL is the SQL null of a nullable column.
NULL == "NULL"

InitBank == (1 :> "Bank A") @@ (2 :> "Bank B")

\* User 3 was added by add_users without a birth_day.
InitUser ==
    (1 :> [name |-> "John", surname |-> "Doe", birth_day |-> "1980-01-01"])
 @@ (2 :> [name |-> "Jane", surname |-> "Smith", birth_day |-> "1990-05-15"])
 @@ (3 :> [name |-> "Charlie", surname |-> "Brown", birth_day |-> NULL])

\* A NULL discount is written 0, which the CHECK on the column excludes as a
\* value.
InitAccount ==
    (1 :> [user_id |-> 1, type |-> "debit", account_number |-> "ID-USD-1001000001-",
           bank_id |-> 1, currency |-> "USD", amount |-> 8,
           discount |-> 0, status |-> "gold"])
 @@ (2 :> [user_id |-> 2, type |-> "debit", account_number |-> "ID-EUR-2001000003-",
           bank_id |-> 2, currency |-> "EUR", amount |-> 8,
           discount |-> 0, status |-> "platinum"])
 @@ (3 :> [user_id |-> 3, type |-> "credit", account_number |-> "ID-USD-1003000004-",
           bank_id |-> 1, currency |-> "USD", amount |-> 4,
           discount |-> 0, status |-> "silver"])

\* The ledger holds the row of one earlier transfer of 4 USD from 1 to 3.
InitTransaction ==
    << [bank_sender_name |-> "Bank A", account_sender_id |-> 1,
        bank_receiver_name |-> "Bank A", account_receiver_id |-> 3,
        sent_currency |-> "USD", sent_amount |-> 4] >>

InitStore ==
    [Bank |-> InitBank, User |-> InitUser, Account |-> InitAccount,
     Transaction |-> InitTransaction]

VARIABLES
    db,                   \* committed content of the sqlite file
    pending,              \* per call: the open write transaction of its connection, or None
    lock,                 \* the connection holding sqlite's write lock, or 0
    pc,                   \* per client: position inside transfer_money
    transfer_data,        \* per call: the request dict
    sender, receiver,     \* per call: rows returned by get_account
    rates,                \* per call: dict returned by _get_exchange_rates
    new_sender_balance, new_receiver_balance,
    result,               \* per call: the dict returned to the caller
    provider,             \* per call: how the rate provider answered
    before,               \* per call: the committed store when the call began
    calls,                \* number of calls begun
    account_read,         \* what the client's latest get_account call returned
    reply                 \* what the client's latest one-statement-block call returned

vars == <<db, pending, lock, pc, transfer_data, sender, receiver, rates,
          new_sender_balance, new_receiver_balance, result, provider, before, calls,
          account_read, reply>>

\* ------------------------------------------------------- pure helper code
\* validate_required_fields: the fields that are not in the dict.
missing(data) == { f \in RequiredFields : f \notin DOMAIN data }

\* get_account: SELECT a.*, b.name FROM Account a JOIN Bank b ... WHERE a.id = ?
get_account(store, account_id) ==
    IF account_id \in DOMAIN store.Account
       /\ store.Account[account_id].bank_id \in DOMAIN store.Bank
    THEN [id |-> account_id,
          user_id |-> store.Account[account_id].user_id,
          type |-> store.Account[account_id].type,
          account_number |-> store.Account[account_id].account_number,
          bank_id |-> store.Account[account_id].bank_id,
          currency |-> store.Account[account_id].currency,
          amount |-> store.Account[account_id].amount,
          discount |-> store.Account[account_id].discount,
          status |-> store.Account[account_id].status,
          bank_name |-> store.Bank[store.Account[account_id].bank_id]]
    ELSE None

\* The 'data' mapping of a provider response for a base currency (in halves):
\* 1 USD = 2 EUR.  GBP is a currency the provider does not quote.
ProviderData(base_currency) ==
    IF base_currency = "USD" THEN [USD |-> 2, EUR |-> 4]
    ELSE [EUR |-> 2, USD |-> 1]

\* {base_currency: 1.0}
FallbackRates(base_currency) == (base_currency :> 2)

\* _get_exchange_rates: the provider answers with a 'data' mapping, or with
\* JSON that has no 'data' key, or the request raises RequestException; in
\* the last two cases the 1:1 table is returned in its place.
ProviderOutcomes == {"ok", "no_data", "request_exception"}

_get_exchange_rates(base_currency, outcome) ==
    IF outcome = "ok" THEN ProviderData(base_currency)
    ELSE FallbackRates(base_currency)

\* amount / rates[currency] * rates[account currency]
Convert(amount, rate_of_request, rate_of_account) ==
    (amount * rate_of_account) \div rate_of_request

\* Variant of InsufficientFunds: only an overdrawn sender is refused.
InsufficientFundsOverdrawn(s, data) == s.amount < 0

\* if sender['amount'] < transfer_data['amount']
InsufficientFunds(s, data) == s.amount < data.amount

\* Variant of UpdateAmount: the UPDATE has no WHERE clause and also sets
\* the discount.
UpdateAmountEverywhere(store, account_id, value) ==
    [store EXCEPT !.Account =
        [a \in DOMAIN store.Account |->
            [store.Account[a] EXCEPT !.amount = value, !.discount = 50]]]

\* "UPDATE Account SET amount = ? WHERE id = ?"
UpdateAmount(store, account_id, value) ==
    IF account_id \in DOMAIN store.Account
    THEN [store EXCEPT !.Account[account_id].amount = value]
    ELSE store

\* Variant of TransactionRow: the row records the sender's currency in place
\* of the requested one.
TransactionRowSenderCurrency(s, r, data) ==
    [bank_sender_name |-> s.bank_name,
     account_sender_id |-> data.sender_account_id,
     bank_receiver_name |-> r.bank_name,
     account_receiver_id |-> data.receiver_account_id,
     sent_currency |-> s.currency,
     sent_amount |-> data.amount]

\* The row of INSERT INTO "Transaction" (the datetime column is left out).
TransactionRow(s, r, data) ==
    [bank_sender_name |-> s.bank_name,
     account_sender_id |-> data.sender_account_id,
     bank_receiver_name |-> r.bank_name,
     account_receiver_id |-> data.receiver_account_id,
     sent_currency |-> data.currency,
     sent_amount |-> data.amount]

InsertTransaction(store, row) ==
    [store EXCEPT !.Transaction = Append(store.Transaction, row)]

ErrorResult(msg) == [status |-> "error", message |-> msg]

\* Sum of Account.amount over all rows.
RECURSIVE SumAmounts(_, _)
SumAmounts(account, ids) ==
    IF ids = {} THEN 0
    ELSE LET i == CHOOSE x \in ids : TRUE
         IN account[i].amount + SumAmounts(account, ids \ {i})

TotalBalance(store) == SumAmounts(store.Account, DOMAIN store.Account)

\* What the open connection of call p sees: its own writes, else the file.
View(p) == IF pending[p] = None THEN db ELSE pending[p]

\* -------------------------------------------------------------------- Init
Init ==
    /\ db = InitStore
    /\ pending = [p \in Procs |-> None]
    /\ lock = 0
    /\ pc = [p \in Procs |-> "idle"]
    /\ transfer_data = [p \in Procs |-> None]
    /\ sender = [p \in Procs |-> None]
    /\ receiver = [p \in Procs |-> None]
    /\ rates = [p \in Procs |-> None]
    /\ new_sender_balance = [p \in Procs |-> None]
    /\ new_receiver_balance = [p \in Procs |-> None]
    /\ result = [p \in Procs |-> None]
    /\ provider = [p \in Procs |-> "not_called"]
    /\ before = [p \in Procs |-> None]
    /\ calls = 0
    /\ account_read = None
    /\ reply = None

\* ----------------------------------------------------------------- actions
\* The caller invokes transfer_money(data); the wrapper opens a connection.
\* What the client kept of its earlier calls is dropped.
Enter(p, data) ==
    /\ pc[p] = "idle"
    /\ pc' = [pc EXCEPT ![p] = "validate"]
    /\ transfer_data' = [transfer_data EXCEPT ![p] = data]
    /\ before' = [before EXCEPT ![p] = db]
    /\ calls' = calls + 1
    /\ account_read' = None
    /\ reply' = None
    /\ UNCHANGED <<db, pending, lock, sender, receiver, rates,
                   new_sender_balance, new_receiver_balance, result, provider>>

\* One client thread that makes its calls one after the other.
Call(p) ==
    /\ p = 1
    /\ calls < MaxCalls
    /\ \E data \in Requests : Enter(p, data)

\* Two clients, one call each, free to overlap.
CallConcurrently(p) ==
    \E data \in ConcurrentRequests : Enter(p, data)

\* Variant of Reject: the rejected request has been logged in the ledger
\* before the error dict is returned.
RejectAfterWrite(p, msg) ==
    /\ result' = [result EXCEPT ![p] = ErrorResult(msg)]
    /\ pc' = [pc EXCEPT ![p] = "exit"]
    /\ pending' = [pending EXCEPT ![p] =
            InsertTransaction(IF pending[p] = None THEN db ELSE pending[p], transfer_data[p])]
    /\ UNCHANGED lock

\* return {'status': 'error', 'message': msg}, or an exception that
\* except Exception turns into that dict: nothing is written.
Reject(p, msg) ==
    /\ result' = [result EXCEPT ![p] = ErrorResult(msg)]
    /\ pc' = [pc EXCEPT ![p] = "exit"]
    /\ UNCHANGED <<pending, lock>>

\* The call goes on to its next statement.
Goto(p, label) ==
    /\ pc' = [pc EXCEPT ![p] = label]
    /\ UNCHANGED <<result, pending, lock>>

\* validate_required_fields raises ValueError, caught by except Exception.
Validate(p) ==
    /\ pc[p] = "validate"
    /\ IF missing(transfer_data[p]) # {}
       THEN Reject(p, "Missing required fields")
       ELSE Goto(p, "get_sender")
    /\ UNCHANGED <<db, transfer_data, sender, receiver, rates,
                   new_sender_balance, new_receiver_balance, provider, before, calls>>
    /\ UNCHANGED <<account_read, reply>>

\* Variant of GetSender: the account is read on the wrapper's cursor after
\* BEGIN IMMEDIATE, so the write transaction is open from the first read.
GetSenderInTransaction(p) ==
    /\ pc[p] = "get_sender"
    /\ lock \in {0, p}
    /\ lock' = p
    /\ pending' = [pending EXCEPT ![p] = View(p)]
    /\ sender' = [sender EXCEPT ![p] = get_account(View(p), transfer_data[p].sender_account_id)]
    /\ pc' = [pc EXCEPT ![p] = "get_receiver"]
    /\ UNCHANGED <<db, transfer_data, receiver, rates, result,
                   new_sender_balance, new_receiver_balance, provider, before, calls>>
    /\ UNCHANGED <<account_read, reply>>

\* sender = self.get_account(...): a connection of its own, which commits
\* nothing and closes; it reads the committed file.
GetSender(p) ==
    /\ pc[p] = "get_sender"
    /\ sender' = [sender EXCEPT ![p] = get_account(db, transfer_data[p].sender_account_id)]
    /\ Goto(p, "get_receiver")
    /\ UNCHANGED <<db, transfer_data, receiver, rates,
                   new_sender_balance, new_receiver_balance, provider, before, calls>>
    /\ UNCHANGED <<account_read, reply>>

\* receiver = self.get_account(...), then the not-found and balance checks.
GetReceiver(p) ==
    /\ pc[p] = "get_receiver"
    /\ LET r == get_account(db, transfer_data[p].receiver_account_id) IN
       /\ receiver' = [receiver EXCEPT ![p] = r]
       /\ IF sender[p] = None \/ r = None
          THEN Reject(p, "One or both accounts not found")
          ELSE IF InsufficientFunds(sender[p], transfer_data[p])
          THEN Reject(p, "Insufficient funds")
          ELSE Goto(p, "get_rates")
    /\ UNCHANGED <<db, transfer_data, sender, rates,
                   new_sender_balance, new_receiver_balance, provider, before, calls>>
    /\ UNCHANGED <<account_read, reply>>

\* Variant of GetRates: no currency check; a currency the snapshot does not
\* quote is converted at 1.0 (rates.get(currency, 1.0)).
GetRatesDefaultRate(p) ==
    /\ pc[p] = "get_rates"
    /\ \E outcome \in ProviderOutcomes :
         LET table == _get_exchange_rates(sender[p].currency, outcome)
             data == transfer_data[p]
             rate(c) == IF c \in DOMAIN table THEN table[c] ELSE 2
         IN
         /\ provider' = [provider EXCEPT ![p] = outcome]
         /\ rates' = [rates EXCEPT ![p] = table]
         /\ new_sender_balance' = [new_sender_balance EXCEPT ![p] =
                sender[p].amount
                - Convert(data.amount, rate(data.currency), rate(sender[p].currency))]
         /\ new_receiver_balance' = [new_receiver_balance EXCEPT ![p] =
                receiver[p].amount
                + Convert(data.amount, rate(data.currency), rate(receiver[p].currency))]
         /\ Goto(p, "update_sender")
    /\ UNCHANGED <<db, transfer_data, sender, receiver, before, calls>>
    /\ UNCHANGED <<account_read, reply>>

\* rates = self._get_exchange_rates(sender['currency']), the currency check
\* and the conversion of the amounts.
GetRates(p) ==
    /\ pc[p] = "get_rates"
    /\ \E outcome \in ProviderOutcomes :
         LET table == _get_exchange_rates(sender[p].currency, outcome)
             data == transfer_data[p]
         IN
         /\ provider' = [provider EXCEPT ![p] = outcome]
         /\ rates' = [rates EXCEPT ![p] = table]
         /\ IF data.currency \notin DOMAIN table \/ receiver[p].currency \notin DOMAIN table
            THEN /\ Reject(p, "Unsupported currency")
                 /\ UNCHANGED <<new_sender_balance, new_receiver_balance>>
            ELSE /\ new_sender_balance' = [new_sender_balance EXCEPT ![p] =
                        sender[p].amount
                        - Convert(data.amount, table[data.currency], table[sender[p].currency])]
                 /\ new_receiver_balance' = [new_receiver_balance EXCEPT ![p] =
                        receiver[p].amount
                        + Convert(data.amount, table[data.currency], table[receiver[p].currency])]
                 /\ Goto(p, "update_sender")
    /\ UNCHANGED <<db, transfer_data, sender, receiver, before, calls>>
    /\ UNCHANGED <<account_read, reply>>

\* First UPDATE: sqlite3 begins the transaction and takes the write lock.
UpdateSender(p) ==
    /\ pc[p] = "update_sender"
    /\ lock \in {0, p}
    /\ lock' = p
    /\ pending' = [pending EXCEPT ![p] =
            UpdateAmount(View(p), transfer_data[p].sender_account_id, new_sender_balance[p])]
    /\ pc' = [pc EXCEPT ![p] = "update_receiver"]
    /\ UNCHANGED <<db, transfer_data, sender, receiver, rates,
                   new_sender_balance, new_receiver_balance, result, provider, before, calls>>
    /\ UNCHANGED <<account_read, reply>>

\* Second UPDATE, inside the transaction the first one opened.
UpdateReceiver(p) ==
    /\ pc[p] = "update_receiver"
    /\ pending' = [pending EXCEPT ![p] =
            UpdateAmount(View(p), transfer_data[p].receiver_account_id, new_receiver_balance[p])]
    /\ pc' = [pc EXCEPT ![p] = "insert"]
    /\ UNCHANGED <<db, lock, transfer_data, sender, receiver, rates,
                   new_sender_balance, new_receiver_balance, result, provider, before, calls>>
    /\ UNCHANGED <<account_read, reply>>

\* INSERT INTO "Transaction" and the success dict.
RecordTransaction(p) ==
    /\ pc[p] = "insert"
    /\ pending' = [pending EXCEPT ![p] =
            InsertTransaction(View(p), TransactionRow(sender[p], receiver[p], transfer_data[p]))]
    /\ result' = [result EXCEPT ![p] =
            [status |-> "success", message |-> "Transfer completed successfully",
             details |-> [sender_new_balance |-> new_sender_balance[p],
                          receiver_new_balance |-> new_receiver_balance[p],
                          exchange_rate |-> rates[p]]]]
    /\ pc' = [pc EXCEPT ![p] = "exit"]
    /\ UNCHANGED <<db, lock, transfer_data, sender, receiver, rates,
                   new_sender_balance, new_receiver_balance, provider, before, calls>>
    /\ UNCHANGED <<account_read, reply>>

\* cursor.execute raises (sqlite3.Error: disk I/O error, disk full, ...):
\* the statement has no effect, except Exception turns it into an error dict.
ExecuteRaises(p) ==
    /\ pc[p] \in {"update_sender", "update_receiver", "insert"}
    /\ lock \in {0, p}
    /\ Reject(p, "sqlite3 error")
    /\ UNCHANGED <<db, transfer_data, sender, receiver, rates,
                   new_sender_balance, new_receiver_balance, provider, before, calls>>
    /\ UNCHANGED <<account_read, reply>>

\* The first UPDATE finds the write lock held by another connection until
\* the busy timeout: OperationalError "database is locked".
UpdateSenderBusy(p) ==
    /\ pc[p] = "update_sender"
    /\ lock \notin {0, p}
    /\ Reject(p, "database is locked")
    /\ UNCHANGED <<db, transfer_data, sender, receiver, rates,
                   new_sender_balance, new_receiver_balance, provider, before, calls>>
    /\ UNCHANGED <<account_read, reply>>

\* The wrapper returns the dict, so __exit__ sees exc_type None and commits
\* whatever the connection wrote, then closes.  The locals of the call end.
Exit(p) ==
    /\ pc[p] = "exit"
    /\ db' = View(p)
    /\ pending' = [pending EXCEPT ![p] = None]
    /\ lock' = IF lock = p THEN 0 ELSE lock
    /\ pc' = [pc EXCEPT ![p] = "done"]
    /\ sender' = [sender EXCEPT ![p] = None]
    /\ receiver' = [receiver EXCEPT ![p] = None]
    /\ rates' = [rates EXCEPT ![p] = None]
    /\ new_sender_balance' = [new_sender_balance EXCEPT ![p] = None]
    /\ new_receiver_balance' = [new_receiver_balance EXCEPT ![p] = None]
    /\ UNCHANGED <<transfer_data, result, provider, before, calls>>
    /\ UNCHANGED <<account_read, reply>>

\* conn.commit() raises inside __exit__ (disk full, I/O error, database
\* locked by a reader): the exception leaves the with-block after the
\* wrapper's try, so it reaches the caller; close() is skipped and the
\* abandoned connection's transaction is rolled back.
CommitRaises(p) ==
    /\ pc[p] = "exit"
    /\ pending[p] # None
    /\ result' = [result EXCEPT ![p] = [status |-> "raised", message |-> "commit failed"]]
    /\ pending' = [pending EXCEPT ![p] = None]
    /\ lock' = IF lock = p THEN 0 ELSE lock
    /\ pc' = [pc EXCEPT ![p] = "done"]
    /\ sender' = [sender EXCEPT ![p] = None]
    /\ receiver' = [receiver EXCEPT ![p] = None]
    /\ rates' = [rates EXCEPT ![p] = None]
    /\ new_sender_balance' = [new_sender_balance EXCEPT ![p] = None]
    /\ new_receiver_balance' = [new_receiver_balance EXCEPT ![p] = None]
    /\ UNCHANGED <<db, transfer_data, provider, before, calls, account_read, reply>>

\* The caller has the dict; nothing of the call remains.
Return(p) ==
    /\ pc[p] = "done"
    /\ pc' = [pc EXCEPT ![p] = "idle"]
    /\ transfer_data' = [transfer_data EXCEPT ![p] = None]
    /\ result' = [result EXCEPT ![p] = None]
    /\ provider' = [provider EXCEPT ![p] = "not_called"]
    /\ before' = [before EXCEPT ![p] = None]
    /\ UNCHANGED <<db, pending, lock, sender, receiver, rates,
                   new_sender_balance, new_receiver_balance, calls>>
    /\ UNCHANGED <<account_read, reply>>

Steps(p) ==
    \/ Validate(p)
    \/ GetSender(p)
    \/ GetReceiver(p)
    \/ GetRates(p)
    \/ UpdateSender(p)
    \/ UpdateReceiver(p)
    \/ RecordTransaction(p)
    \/ ExecuteRaises(p)
    \/ Exit(p)
    \/ CommitRaises(p)

\* ------------------------------------------- the other calls of the client
\* account_read after a call that writes and is not a transfer.
WrittenSince ==
    IF account_read = None THEN None ELSE [account_read EXCEPT !.written_since = TRUE]

\* Variables of a transfer_money call in progress.
transfer_vars == <<pending, lock, pc, transfer_data, sender, receiver, rates,
                   new_sender_balance, new_receiver_balance, result, provider, before>>

\* The client is between two calls and may make one more.
MayCall == pc[1] = "idle" /\ calls < MaxCalls

\* Variant of GetAccountCall: the lookup stamps the row it returns (the
\* status column is cleared), and the wrapper commits the stamp.
GetAccountCallTouching(account_id) ==
    /\ pc[1] = "idle"
    /\ account_read' =
           [account_id |-> account_id,
            row |-> get_account(db, account_id),
            written_since |-> FALSE,
            repeated |-> /\ account_read # None
                         /\ account_read.account_id = account_id
                         /\ ~account_read.written_since]
    /\ db' = IF account_id \in DOMAIN db.Account
             THEN [db EXCEPT !.Account[account_id].status = NULL]
             ELSE db
    /\ UNCHANGED <<transfer_vars, calls, reply>>

\* api.get_account(account_id) called by the client: one SELECT on a
\* connection of its own.  account_read remembers the last read until the
\* next transfer call; `written_since` tells that apply_random_discounts or
\* cleanup_incomplete_data ran after it, `repeated` that the read before it
\* was of the same id with no call in between that writes.
GetAccountCall(account_id) ==
    /\ pc[1] = "idle"
    /\ account_read' =
           [account_id |-> account_id,
            row |-> get_account(db, account_id),
            written_since |-> FALSE,
            repeated |-> /\ account_read # None
                         /\ account_read.account_id = account_id
                         /\ ~account_read.written_since]
    /\ UNCHANGED <<db, transfer_vars, calls, reply>>

\* Users that have a credit account: SELECT DISTINCT u.id FROM User u JOIN
\* Account a ON u.id = a.user_id WHERE a.type = 'credit'.
CreditUsers(store) ==
    { u \in DOMAIN store.User :
        \E a \in DOMAIN store.Account :
            store.Account[a].user_id = u /\ store.Account[a].type = "credit" }

Min(a, b) == IF a < b THEN a ELSE b

DiscountValues == {25, 30, 50}
MaxUsersArguments == {0, 1, 10}

\* Variant of SetDiscounts: "UPDATE Account SET discount = ? WHERE user_id = ?"
\* without the condition on the type.
SetDiscountsAnyType(store, discount_of) ==
    [store EXCEPT !.Account =
        [a \in DOMAIN store.Account |->
            IF store.Account[a].user_id \in DOMAIN discount_of
            THEN [store.Account[a] EXCEPT !.discount = discount_of[store.Account[a].user_id]]
            ELSE store.Account[a]]]

\* UPDATE Account SET discount = ? WHERE user_id = ? AND type = 'credit',
\* for every chosen user.
SetDiscounts(store, discount_of) ==
    [store EXCEPT !.Account =
        [a \in DOMAIN store.Account |->
            IF store.Account[a].type = "credit"
               /\ store.Account[a].user_id \in DOMAIN discount_of
            THEN [store.Account[a] EXCEPT !.discount = discount_of[store.Account[a].user_id]]
            ELSE store.Account[a]]]

\* apply_random_discounts(max_users): ORDER BY RANDOM() LIMIT max_users picks
\* the users, random.choices picks a discount for each.
DiscountsApplied(max_users) ==
    \E user_ids \in SUBSET CreditUsers(db) :
       /\ Cardinality(user_ids) = Min(max_users, Cardinality(CreditUsers(db)))
       /\ \E discounts \in [user_ids -> DiscountValues] :
            /\ db' = SetDiscounts(db, discounts)
            /\ reply' = [op |-> "apply_random_discounts", status |-> "success",
                         data |-> { [user_id |-> u, discount |-> discounts[u]] :
                                      u \in user_ids }]

apply_random_discounts(max_users) ==
    /\ MayCall
    /\ DiscountsApplied(max_users)
    /\ calls' = calls + 1
    /\ account_read' = WrittenSince
    /\ UNCHANGED transfer_vars

\* Users with a NULL name, surname or birth_day.
IncompleteUsers(store) ==
    { u \in DOMAIN store.User :
        \/ store.User[u].name = NULL
        \/ store.User[u].surname = NULL
        \/ store.User[u].birth_day = NULL }

\* Variant of cleanup_incomplete_data: the ledger rows of the deleted
\* accounts are deleted with them.
cleanup_incomplete_data_and_ledger ==
    /\ MayCall
    /\ LET gone == IncompleteUsers(db)
           kept_accounts == { a \in DOMAIN db.Account : db.Account[a].user_id \notin gone }
           kept_row(row) == /\ row.account_sender_id \in kept_accounts
                            /\ row.account_receiver_id \in kept_accounts
       IN db' = [db EXCEPT
                   !.Account = [a \in kept_accounts |-> db.Account[a]],
                   !.User = [u \in (DOMAIN db.User) \ gone |-> db.User[u]],
                   !.Transaction = SelectSeq(db.Transaction, kept_row)]
    /\ reply' = [op |-> "cleanup_incomplete_data", status |-> "success",
                 message |-> "Cleaned up incomplete data"]
    /\ calls' = calls + 1
    /\ account_read' = WrittenSince
    /\ UNCHANGED transfer_vars

\* cleanup_incomplete_data: DELETE FROM Account WHERE user_id IN (...), then
\* DELETE FROM User WHERE ...
IncompleteDataDeleted ==
    /\ LET gone == IncompleteUsers(db)
           kept_accounts == { a \in DOMAIN db.Account : db.Account[a].user_id \notin gone }
       IN db' = [db EXCEPT
                   !.Account = [a \in kept_accounts |-> db.Account[a]],
                   !.User = [u \in (DOMAIN db.User) \ gone |-> db.User[u]]]
    /\ reply' = [op |-> "cleanup_incomplete_data", status |-> "success",
                 message |-> "Cleaned up incomplete data"]

cleanup_incomplete_data ==
    /\ MayCall
    /\ IncompleteDataDeleted
    /\ calls' = calls + 1
    /\ account_read' = WrittenSince
    /\ UNCHANGED transfer_vars

\* "UPDATE Account SET Amount = Amount + ? WHERE id = ?"
AddToAmount(store, account_id, delta) ==
    IF account_id \in DOMAIN store.Account
    THEN [store EXCEPT !.Account[account_id].amount = @ + delta]
    ELSE store

\* Which UPDATE of the lab_4 transfer raises, if any.
Lab4Faults == {"none", "first_update", "second_update"}

\* What the lab_4 transfer_money returned, with its arguments (the returned
\* strings carry the ids and the amount).
Lab4Reply(from_account_id, to_account_id, amount, status, message) ==
    [op |-> "lab4_transfer_money", status |-> status, message |-> message,
     from_account_id |-> from_account_id, to_account_id |-> to_account_id,
     amount |-> amount]

\* Variant of lab4_transfer_money: both accounts are looked up before the
\* balance is compared.
lab4_transfer_money_lookups_first(from_account_id, to_account_id, amount, fault) ==
    /\ MayCall
    /\ LET row_of(status, message) ==
               Lab4Reply(from_account_id, to_account_id, amount, status, message)
       IN
       IF amount <= 0
       THEN /\ fault = "none"
            /\ reply' = row_of("rejected", "Amount must be positive.")
            /\ db' = db
       ELSE IF from_account_id \notin DOMAIN db.Account
       THEN /\ fault = "none"
            /\ reply' = row_of("rejected", "From account not found.")
            /\ db' = db
       ELSE IF to_account_id \notin DOMAIN db.Account
       THEN /\ fault = "none"
            /\ reply' = row_of("rejected", "To account not found.")
            /\ db' = db
       ELSE IF db.Account[from_account_id].amount < amount
       THEN /\ fault = "none"
            /\ reply' = row_of("rejected", "Insufficient funds")
            /\ db' = db
       ELSE IF fault = "first_update"
       THEN /\ reply' = row_of("failed", "Transfer failed")
            /\ db' = db
       ELSE IF fault = "second_update"
       THEN /\ reply' = row_of("failed", "Transfer failed")
            /\ db' = AddToAmount(db, from_account_id, 0 - amount)
       ELSE /\ reply' = row_of("success", "Transferred successfully.")
            /\ db' = AddToAmount(AddToAmount(db, from_account_id, 0 - amount),
                                 to_account_id, amount)
    /\ calls' = calls + 1
    /\ account_read' = None
    /\ UNCHANGED transfer_vars

\* lab_4 transfer_money(from_account_id, to_account_id, amount) under its own
\* db_connection wrapper: the function returns a string on every path, so
\* the wrapper commits.  No row is written to "Transaction".  The store is
\* the file DB_PATH names, of the same schema; the model has the one store.
lab4_transfer_money(from_account_id, to_account_id, amount, fault) ==
    /\ MayCall
    /\ LET row_of(status, message) ==
               Lab4Reply(from_account_id, to_account_id, amount, status, message)
       IN
       IF amount <= 0
       THEN /\ fault = "none"
            /\ reply' = row_of("rejected", "Amount must be positive.")
            /\ db' = db
       ELSE IF from_account_id \notin DOMAIN db.Account
       THEN /\ fault = "none"
            /\ reply' = row_of("rejected", "From account not found.")
            /\ db' = db
       ELSE IF db.Account[from_account_id].amount < amount
       THEN /\ fault = "none"
            /\ reply' = row_of("rejected", "Insufficient funds")
            /\ db' = db
       ELSE IF to_account_id \notin DOMAIN db.Account
       THEN /\ fault = "none"
            /\ reply' = row_of("rejected", "To account not found.")
            /\ db' = db
       ELSE IF fault = "first_update"
       THEN /\ reply' = row_of("failed", "Transfer failed")
            /\ db' = db
       ELSE IF fault = "second_update"
       THEN /\ reply' = row_of("failed", "Transfer failed")
            /\ db' = AddToAmount(db, from_account_id, 0 - amount)
       ELSE /\ reply' = row_of("success", "Transferred successfully.")
            /\ db' = AddToAmount(AddToAmount(db, from_account_id, 0 - amount),
                                 to_account_id, amount)
    /\ calls' = calls + 1
    /\ account_read' = None
    /\ UNCHANGED transfer_vars

OtherCalls ==
    \/ \E account_id \in RequestIds : GetAccountCall(account_id)
    \/ \E max_users \in MaxUsersArguments : apply_random_discounts(max_users)
    \/ cleanup_incomplete_data
    \/ \E from_account_id \in RequestIds, to_account_id \in RequestIds,
         amount \in Amounts, fault \in Lab4Faults :
           lab4_transfer_money(from_account_id, to_account_id, amount, fault)

\* Calls made one after the other.
Next == (\E p \in Procs : Call(p) \/ Steps(p) \/ Return(p)) \/ OtherCalls

Spec == Init /\ [][Next]_vars

\* Two clients whose calls may overlap.
NextConc == \E p \in Procs : CallConcurrently(p) \/ Steps(p) \/ UpdateSenderBusy(p)

SpecConc == Init /\ [][NextConc]_vars

\* ------------------------- the lab_4 transfer_money, statement by statement
\* For callers that overlap, the call of lab4_transfer_money is taken one
\* store statement at a time.  Each call has a connection of its own; a
\* SELECT reads the committed file, the first UPDATE begins the transaction
\* and takes the write lock, the wrapper's conn.commit() ends it.
Lab4Amounts == {0, 4, 8}

\* Variables the lab_4 call does not use.
lab4_unused == <<receiver, rates, new_sender_balance, new_receiver_balance,
                 provider, before, calls, account_read, reply>>

\* return "<message>" before the first UPDATE.
Lab4Return(p, status, message) ==
    /\ result' = [result EXCEPT ![p] = [status |-> status, message |-> message]]
    /\ pc' = [pc EXCEPT ![p] = "lab4_commit"]

\* The caller invokes transfer_money(from_account_id, to_account_id, amount);
\* if amount <= 0 it returns before any query.
Lab4Call(p) ==
    /\ pc[p] = "idle"
    /\ \E from_account_id \in AccountIds, to_account_id \in AccountIds,
         amount \in Lab4Amounts :
           /\ transfer_data' = [transfer_data EXCEPT ![p] =
                  [from_account_id |-> from_account_id,
                   to_account_id |-> to_account_id, amount |-> amount]]
           /\ IF amount <= 0
              THEN Lab4Return(p, "rejected", "Amount must be positive.")
              ELSE /\ pc' = [pc EXCEPT ![p] = "lab4_select_from"]
                   /\ UNCHANGED result
    /\ UNCHANGED <<db, pending, lock, sender, lab4_unused>>

\* SELECT Amount FROM Account WHERE id = from_account_id, and the two checks
\* on the row.
Lab4SelectFrom(p) ==
    /\ pc[p] = "lab4_select_from"
    /\ LET data == transfer_data[p] IN
       IF data.from_account_id \notin DOMAIN View(p).Account
       THEN /\ Lab4Return(p, "rejected", "From account not found.")
            /\ UNCHANGED sender
       ELSE /\ sender' = [sender EXCEPT ![p] =
                   [amount |-> View(p).Account[data.from_account_id].amount]]
            /\ IF View(p).Account[data.from_account_id].amount < data.amount
               THEN Lab4Return(p, "rejected", "Insufficient funds")
               ELSE /\ pc' = [pc EXCEPT ![p] = "lab4_select_to"]
                    /\ UNCHANGED result
    /\ UNCHANGED <<db, pending, lock, transfer_data, lab4_unused>>

\* SELECT Amount FROM Account WHERE id = to_account_id.
Lab4SelectTo(p) ==
    /\ pc[p] = "lab4_select_to"
    /\ IF transfer_data[p].to_account_id \notin DOMAIN View(p).Account
       THEN Lab4Return(p, "rejected", "To account not found.")
       ELSE /\ pc' = [pc EXCEPT ![p] = "lab4_debit"]
            /\ UNCHANGED result
    /\ UNCHANGED <<db, pending, lock, transfer_data, sender, lab4_unused>>

\* UPDATE Account SET Amount = Amount - ? WHERE id = from_account_id: begins
\* the transaction; the subtraction is made on the row as it is now.
Lab4Debit(p) ==
    /\ pc[p] = "lab4_debit"
    /\ lock \in {0, p}
    /\ lock' = p
    /\ pending' = [pending EXCEPT ![p] =
            AddToAmount(View(p), transfer_data[p].from_account_id,
                        0 - transfer_data[p].amount)]
    /\ pc' = [pc EXCEPT ![p] = "lab4_credit"]
    /\ UNCHANGED <<db, transfer_data, sender, result, lab4_unused>>

\* The first UPDATE finds the write lock held until the busy timeout:
\* OperationalError, caught by except Exception.
Lab4DebitBusy(p) ==
    /\ pc[p] = "lab4_debit"
    /\ lock \notin {0, p}
    /\ Lab4Return(p, "failed", "Transfer failed")
    /\ UNCHANGED <<db, pending, lock, transfer_data, sender, lab4_unused>>

\* UPDATE Account SET Amount = Amount + ? WHERE id = to_account_id, and the
\* success string.
Lab4Credit(p) ==
    /\ pc[p] = "lab4_credit"
    /\ pending' = [pending EXCEPT ![p] =
            AddToAmount(View(p), transfer_data[p].to_account_id, transfer_data[p].amount)]
    /\ Lab4Return(p, "success", "Transferred successfully.")
    /\ UNCHANGED <<db, lock, transfer_data, sender, lab4_unused>>

\* An UPDATE raises sqlite3.Error: it has no effect, except Exception
\* returns 'Transfer failed'.
Lab4UpdateRaises(p) ==
    /\ pc[p] \in {"lab4_debit", "lab4_credit"}
    /\ lock \in {0, p}
    /\ Lab4Return(p, "failed", "Transfer failed")
    /\ UNCHANGED <<db, pending, lock, transfer_data, sender, lab4_unused>>

\* The wrapper: func returned, conn.commit(), conn.close().
Lab4Commit(p) ==
    /\ pc[p] = "lab4_commit"
    /\ db' = View(p)
    /\ pending' = [pending EXCEPT ![p] = None]
    /\ lock' = IF lock = p THEN 0 ELSE lock
    /\ pc' = [pc EXCEPT ![p] = "done"]
    /\ sender' = [sender EXCEPT ![p] = None]
    /\ UNCHANGED <<transfer_data, result, lab4_unused>>

\* Two callers of the lab_4 transfer_money whose calls may overlap.
NextLab4 ==
    \E p \in Procs :
        \/ Lab4Call(p)
        \/ Lab4SelectFrom(p)
        \/ Lab4SelectTo(p)
        \/ Lab4Debit(p)
        \/ Lab4DebitBusy(p)
        \/ Lab4Credit(p)
        \/ Lab4UpdateRaises(p)
        \/ Lab4Commit(p)

SpecLab4 == Init /\ [][NextLab4]_vars

\* ---------------------------------------------------------------- reports
\* The two reports are functions of the store; they are applied to stores
\* drawn from bounded sets.  A datetime is a number: the column is TEXT of
\* one format, which SQL compares as text, in the order of time.
Datetimes == {1, 2, 3}

\* Ledgers of up to MaxRows rows, with their id and datetime columns.
MaxRows == 2

ReportRows ==
    [account_sender_id : {1, 2}, account_receiver_id : {1, 2}, datetime : Datetimes]

ReportLedger(rows) ==
    [i \in 1..Len(rows) |->
        [id |-> i,
         bank_sender_name |-> InitBank[InitAccount[rows[i].account_sender_id].bank_id],
         account_sender_id |-> rows[i].account_sender_id,
         bank_receiver_name |-> InitBank[InitAccount[rows[i].account_receiver_id].bank_id],
         account_receiver_id |-> rows[i].account_receiver_id,
         sent_currency |-> "USD",
         sent_amount |-> 4,
         datetime |-> rows[i].datetime]]

LedgerStores ==
    { [InitStore EXCEPT !.Transaction = ReportLedger(rows)] :
        rows \in UNION { [1..n -> ReportRows] : n \in 0..MaxRows } }

\* Stores whose three accounts are spread over the two banks, in two
\* currencies; their ledger is empty.
CapitalStores ==
    { [InitStore EXCEPT !.Transaction = ReportLedger(<< >>), !.Account =
          [a \in AccountIds |->
              [InitAccount[a] EXCEPT !.bank_id = bank_of[a],
                                     !.currency = currency_of[a],
                                     !.amount = amount_of[a]]]] :
        bank_of \in [AccountIds -> DOMAIN InitBank],
        currency_of \in [AccountIds -> {"USD", "EUR"}],
        amount_of \in [AccountIds -> {4, 8, 12}] }

\* The state after construction on one of these stores.
InitReports ==
    /\ db \in LedgerStores \cup CapitalStores
    /\ pending = [p \in Procs |-> None]
    /\ lock = 0
    /\ pc = [p \in Procs |-> "idle"]
    /\ transfer_data = [p \in Procs |-> None]
    /\ sender = [p \in Procs |-> None]
    /\ receiver = [p \in Procs |-> None]
    /\ rates = [p \in Procs |-> None]
    /\ new_sender_balance = [p \in Procs |-> None]
    /\ new_receiver_balance = [p \in Procs |-> None]
    /\ result = [p \in Procs |-> None]
    /\ provider = [p \in Procs |-> "not_called"]
    /\ before = [p \in Procs |-> None]
    /\ calls = 0
    /\ account_read = None
    /\ reply = None

\* The WHERE clause of get_transactions as SQL reads it, AND binding tighter
\* than OR:  account_sender_id = ? OR (account_receiver_id = ? AND datetime
\* >= ? AND datetime <= ?).  A date that is not given (None or '') is
\* written 0 and adds no condition.
TransactionSelected(row, account_id, start_date, end_date) ==
    \/ row.account_sender_id = account_id
    \/ /\ row.account_receiver_id = account_id
       /\ start_date # 0 => row.datetime >= start_date
       /\ end_date # 0 => row.datetime <= end_date

DateArguments == Datetimes \cup {0}

\* get_transactions(account_id, start_date, end_date): the selected rows
\* ORDER BY datetime DESC, rows of one datetime in any order.
get_transactions(account_id, start_date, end_date) ==
    /\ reply = None
    /\ LET table == db.Transaction
           selected == { i \in 1..Len(table) :
                           TransactionSelected(table[i], account_id, start_date, end_date) }
       IN \E order \in [1..Cardinality(selected) -> selected] :
            /\ \A i, j \in DOMAIN order :
                 i < j => /\ order[i] # order[j]
                          /\ table[order[i]].datetime >= table[order[j]].datetime
            /\ reply' = [op |-> "get_transactions", account_id |-> account_id,
                         start_date |-> start_date, end_date |-> end_date,
                         rows |-> [k \in DOMAIN order |-> table[order[k]]]]
    /\ UNCHANGED <<db, transfer_vars, calls, account_read>>


\* The groups of  SELECT b.id, b.name, a.currency, SUM(a.amount) FROM Bank b
\* JOIN Account a ON b.id = a.bank_id GROUP BY b.id, a.currency.
BanksWithAccounts(store) ==
    { b \in DOMAIN store.Bank : \E a \in DOMAIN store.Account : store.Account[a].bank_id = b }

CurrenciesOf(store, bank_id) ==
    { store.Account[a].currency :
        a \in { x \in DOMAIN store.Account : store.Account[x].bank_id = bank_id } }

GroupTotal(store, bank_id, currency) ==
    SumAmounts(store.Account,
               { a \in DOMAIN store.Account :
                   /\ store.Account[a].bank_id = bank_id
                   /\ store.Account[a].currency = currency })

\* amount if currency == 'USD' else amount / rates.get(currency, 1.0)
ToUSD(amount, currency, table) ==
    IF currency = "USD" THEN amount
    ELSE (amount * 2) \div (IF currency \in DOMAIN table THEN table[currency] ELSE 2)

\* SQLite groups by sorting on the group keys, so the group rows of a bank
\* come in the text order of the currency code; this is that order.
CurrencyOrder == <<"EUR", "GBP", "USD">>

LastCurrency(store, bank_id) ==
    LET rank(c) == CHOOSE i \in DOMAIN CurrencyOrder : CurrencyOrder[i] = c
    IN CHOOSE c \in CurrenciesOf(store, bank_id) :
           \A d \in CurrenciesOf(store, bank_id) : rank(d) <= rank(c)

\* bank_totals[bank_id]['total_usd'] after the loop: every group row of the
\* bank assigns it, so it is the converted total of the bank's last group.
BankTotalUSD(store, bank_id, table) ==
    ToUSD(GroupTotal(store, bank_id, LastCurrency(store, bank_id)),
          LastCurrency(store, bank_id), table)

\* get_bank_with_largest_capital: the rates for base USD, the group rows in
\* the order of bank id and currency, the loop, and max(), which returns
\* the first bank of the largest total.
get_bank_with_largest_capital ==
    /\ reply = None
    /\ \E outcome \in ProviderOutcomes :
         LET table == _get_exchange_rates("USD", outcome)
             banks == BanksWithAccounts(db)
             total(b) == BankTotalUSD(db, b, table)
             largest == { b \in banks : \A c \in banks : total(c) <= total(b) }
             first == CHOOSE b \in largest : \A c \in largest : b <= c
         IN IF banks = {}
            THEN reply' = [op |-> "get_bank_with_largest_capital", status |-> "error",
                           message |-> "No banks found", provider |-> outcome]
            ELSE reply' = [op |-> "get_bank_with_largest_capital",
                           status |-> "success", bank_id |-> first,
                           bank_name |-> db.Bank[first],
                           total_capital_usd |-> total(first),
                           provider |-> outcome]
    /\ UNCHANGED <<db, transfer_vars, calls, account_read>>

NextReports ==
    \/ \E account_id \in AccountIds, start_date \in DateArguments,
         end_date \in DateArguments :
           get_transactions(account_id, start_date, end_date)
    \/ get_bank_with_largest_capital

SpecReports == InitReports /\ [][NextReports]_vars

\* ------------------------------------------ record keeping of the client
\* add_banks, add_users and add_accounts (lab_6), modify_account, delete_bank,
\* delete_user and delete_account (lab_4), cleanup_incomplete_data and
\* apply_random_discounts, called one after the other on one database file.

\* Number of record-keeping calls of one run.
MaxAdminCalls == 2

\* User 1 holds a debit and two credit accounts, user 3 has no birth_day.
\* sqlite_sequence is the table in which AUTOINCREMENT keeps the largest id
\* each table has handed out.
AdminUser ==
    (1 :> [name |-> "John", surname |-> "Doe", birth_day |-> "1980-01-01", Accounts |-> ""])
 @@ (2 :> [name |-> "Jane", surname |-> "Smith", birth_day |-> "1990-05-15", Accounts |-> ""])
 @@ (3 :> [name |-> "Charlie", surname |-> "Brown", birth_day |-> NULL, Accounts |-> ""])

AdminAccount ==
    (1 :> [user_id |-> 1, type |-> "debit", account_number |-> "ACCT0001",
           bank_id |-> 1, currency |-> "USD", amount |-> 8,
           discount |-> 0, status |-> "gold"])
 @@ (2 :> [user_id |-> 1, type |-> "credit", account_number |-> "ACCT0002",
           bank_id |-> 2, currency |-> "USD", amount |-> 4,
           discount |-> 0, status |-> NULL])
 @@ (3 :> [user_id |-> 1, type |-> "credit", account_number |-> "ACCT0003",
           bank_id |-> 1, currency |-> "EUR", amount |-> 4,
           discount |-> 0, status |-> "silver"])
 @@ (4 :> [user_id |-> 3, type |-> "credit", account_number |-> "ACCT0004",
           bank_id |-> 2, currency |-> "USD", amount |-> -4,
           discount |-> 0, status |-> NULL])

AdminStore ==
    [Bank |-> InitBank, User |-> AdminUser, Account |-> AdminAccount,
     Transaction |-> <<>>,
     sqlite_sequence |-> [Bank |-> 2, User |-> 3, Account |-> 4]]

InitAdmin ==
    /\ db = AdminStore
    /\ pending = [p \in Procs |-> None]
    /\ lock = 0
    /\ pc = [p \in Procs |-> "idle"]
    /\ transfer_data = [p \in Procs |-> None]
    /\ sender = [p \in Procs |-> None]
    /\ receiver = [p \in Procs |-> None]
    /\ rates = [p \in Procs |-> None]
    /\ new_sender_balance = [p \in Procs |-> None]
    /\ new_receiver_balance = [p \in Procs |-> None]
    /\ result = [p \in Procs |-> None]
    /\ provider = [p \in Procs |-> "not_called"]
    /\ before = [p \in Procs |-> None]
    /\ calls = 0
    /\ account_read = None
    /\ reply = None

MayCallAdmin == calls < MaxAdminCalls

\* The argument of a batch insert is a list of dicts or one dict; the one
\* dict is kept as value[1].
ListOf(items) == [kind |-> "list", value |-> items]
DictOf(item) == [kind |-> "dict", value |-> <<item>>]

\* "for x in data": the elements of a list, the keys of a dict.  Which order
\* the keys come in makes no difference to the loops below.
Keys(dict) ==
    LET n == Cardinality(DOMAIN dict)
        order == CHOOSE f \in [1..n -> DOMAIN dict] :
                     \A i, j \in 1..n : f[i] = f[j] => i = j
    IN [i \in 1..n |-> [key |-> order[i]]]

Iterate(data) == IF data.kind = "list" THEN data.value ELSE Keys(data.value[1])

\* A key of the dict stands where the loop expects a dict:
\* validate_required_fields tests substrings of it, and indexing it with a
\* field name raises TypeError.
IsKey(item) == "key" \in DOMAIN item

\* The body of the loop of add_banks for one element: the row, or None when
\* the element raises (missing name, a key, UNIQUE(name)).
BankRow(store, bank) ==
    IF /\ ~IsKey(bank)
       /\ "name" \in DOMAIN bank
       /\ \A b \in DOMAIN store.Bank : store.Bank[b] # bank.name
    THEN [id |-> store.sqlite_sequence.Bank + 1, name |-> bank.name]
    ELSE None

RECURSIVE AddBankRows(_, _, _)
AddBankRows(store, added, items) ==
    IF items = <<>> THEN [store |-> store, added |-> added]
    ELSE LET row == BankRow(store, Head(items))
         IN IF row = None THEN AddBankRows(store, added, Tail(items))
            ELSE AddBankRows(
                   [store EXCEPT !.Bank = @ @@ (row.id :> row.name),
                                 !.sqlite_sequence.Bank = row.id],
                   Append(added, row), Tail(items))

BankRecords == { [name |-> "Bank A"], [name |-> "Bank C"], [other |-> "x"] }

\* Lists of up to two records and single records of a set.
BatchArguments(records) ==
    { ListOf(items) : items \in {<<>>} \cup { <<r>> : r \in records }
                                 \cup { <<r, s>> : r \in records, s \in records } }
    \cup { DictOf(r) : r \in records }

\* add_banks(banks_data)
add_banks(banks_data) ==
    /\ MayCallAdmin
    /\ LET out == AddBankRows(db, <<>>, Iterate(banks_data))
       IN /\ db' = out.store
          /\ reply' = [op |-> "add_banks", argument |-> banks_data,
                       status |-> "success", data |-> out.added]
    /\ calls' = calls + 1
    /\ UNCHANGED <<transfer_vars, account_read>>

\* validate_user_full_name: a full name is written as the sequence of the
\* words that split() finds in it; exactly two are a name and a surname.
validate_user_full_name(user_full_name) ==
    IF Len(user_full_name) = 2
    THEN [name |-> user_full_name[1], surname |-> user_full_name[2]]
    ELSE None

\* dict.get(key, default)
Get(dict, key, default) == IF key \in DOMAIN dict THEN dict[key] ELSE default

\* The body of the loop of add_users for one element.
UserRow(store, user) ==
    IF IsKey(user) \/ "user_full_name" \notin DOMAIN user THEN None
    ELSE LET names == validate_user_full_name(user.user_full_name)
         IN IF names = None THEN None
            ELSE [id |-> store.sqlite_sequence.User + 1,
                  name |-> names.name, surname |-> names.surname,
                  birth_day |-> Get(user, "birth_day", NULL),
                  Accounts |-> Get(user, "Accounts", "")]

RECURSIVE AddUserRows(_, _, _)
AddUserRows(store, added, items) ==
    IF items = <<>> THEN [store |-> store, added |-> added]
    ELSE LET row == UserRow(store, Head(items))
         IN IF row = None THEN AddUserRows(store, added, Tail(items))
            ELSE AddUserRows(
                   [store EXCEPT
                      !.User = @ @@ (row.id :> [name |-> row.name, surname |-> row.surname,
                                                birth_day |-> row.birth_day,
                                                Accounts |-> row.Accounts]),
                      !.sqlite_sequence.User = row.id],
                   Append(added, [id |-> row.id, name |-> row.name,
                                  surname |-> row.surname]),
                   Tail(items))

UserRecords ==
    { [user_full_name |-> <<"Alice", "Johnson">>],
      [user_full_name |-> <<"Bob", "Smith">>, birth_day |-> "1985-03-10"],
      [user_full_name |-> <<>>],
      [birth_day |-> "1985-03-10"] }

\* add_users(users_data)
add_users(users_data) ==
    /\ MayCallAdmin
    /\ LET out == AddUserRows(db, <<>>, Iterate(users_data))
       IN /\ db' = out.store
          /\ reply' = [op |-> "add_users", argument |-> users_data,
                       status |-> "success", data |-> out.added]
    /\ calls' = calls + 1
    /\ UNCHANGED <<transfer_vars, account_read>>

\* validate_enum_field(value, field_name, allowed_values): the value passes
\* when it is one of the allowed values.
validate_enum_field(value, allowed_values) == value \in allowed_values

\* The account numbers the client writes, with what the pattern
\* ^[A-Za-z0-9]{8,12}$ looks at: their length and whether every character is
\* a letter or a digit.
AccountNumberShape ==
    ("ACCT0001" :> [length |-> 8, alphanumeric |-> TRUE])
 @@ ("ACCT0002" :> [length |-> 8, alphanumeric |-> TRUE])
 @@ ("ACCT0003" :> [length |-> 8, alphanumeric |-> TRUE])
 @@ ("ACCT0004" :> [length |-> 8, alphanumeric |-> TRUE])
 @@ ("ACCT0009" :> [length |-> 8, alphanumeric |-> TRUE])
 @@ ("ACCT000000010" :> [length |-> 13, alphanumeric |-> TRUE])
 @@ ("ID-USD-9" :> [length |-> 8, alphanumeric |-> FALSE])

\* validate_account_number: [number |-> the number itself] when it matches,
\* None when it raises.
validate_account_number(account_number) ==
    IF /\ AccountNumberShape[account_number].alphanumeric
       /\ AccountNumberShape[account_number].length >= 8
       /\ AccountNumberShape[account_number].length <= 12
    THEN [number |-> account_number]
    ELSE None

AccountTypes == {"credit", "debit"}
StatusValues == {"gold", "silver", "platinum"}

\* The constraints of the Account table on a row about to be written under
\* id: CHECK(type), CHECK(status) (a NULL passes), UNIQUE(account_number).
\* The FOREIGN KEY clauses are not among them: the connection never turns
\* foreign-key enforcement on.
AccountConstraints(store, id, row) ==
    /\ row.type \in AccountTypes
    /\ row.status \in StatusValues \cup {NULL}
    /\ \A a \in DOMAIN store.Account :
         a # id => store.Account[a].account_number # row.account_number

AccountFields == {"user_id", "type", "account_number", "bank_id", "currency", "amount"}

\* The body of the loop of add_accounts for one element.
AccountRow(store, account) ==
    IF \/ ~(AccountFields \subseteq DOMAIN account)
       \/ ~validate_enum_field(account.type, AccountTypes)
       \/ ~validate_enum_field(Get(account, "status", ""), StatusValues \cup {""})
       \/ validate_account_number(account.account_number) = None
    THEN None
    ELSE LET id == store.sqlite_sequence.Account + 1
             row == [user_id |-> account.user_id, type |-> account.type,
                     account_number |-> validate_account_number(account.account_number).number,
                     bank_id |-> account.bank_id, currency |-> account.currency,
                     amount |-> account.amount, discount |-> 0,
                     status |-> Get(account, "status", NULL)]
         IN IF AccountConstraints(store, id, row) THEN [id |-> id, row |-> row] ELSE None

RECURSIVE AddAccountRows(_, _, _)
AddAccountRows(store, added, items) ==
    IF items = <<>> THEN [store |-> store, added |-> added]
    ELSE LET new == AccountRow(store, Head(items))
         IN IF new = None THEN AddAccountRows(store, added, Tail(items))
            ELSE AddAccountRows(
                   [store EXCEPT !.Account = @ @@ (new.id :> new.row),
                                 !.sqlite_sequence.Account = new.id],
                   Append(added, [id |-> new.id,
                                  account_number |-> new.row.account_number]),
                   Tail(items))

NewAccount ==
    [user_id |-> 2, type |-> "debit", account_number |-> "ACCT0009",
     bank_id |-> 1, currency |-> "USD", amount |-> 4, status |-> "gold"]

AccountRecords ==
    { NewAccount,
      [user_id |-> 2, type |-> "credit", account_number |-> "ACCT0009",
       bank_id |-> 1, currency |-> "USD", amount |-> 4],
      [user_id |-> 2, account_number |-> "ACCT0009",
       bank_id |-> 1, currency |-> "USD", amount |-> 4],
      [NewAccount EXCEPT !.type = "savings"],
      [NewAccount EXCEPT !.status = ""],
      [NewAccount EXCEPT !.account_number = "ID-USD-9"],
      [NewAccount EXCEPT !.account_number = "ACCT0001"],
      [NewAccount EXCEPT !.user_id = 9] }

\* add_accounts(accounts_data): a single dict is first put in a list.
add_accounts(accounts_data) ==
    /\ MayCallAdmin
    /\ LET out == AddAccountRows(db, <<>>, accounts_data.value)
       IN /\ db' = out.store
          /\ reply' = [op |-> "add_accounts", argument |-> accounts_data,
                       status |-> "success", data |-> out.added]
    /\ calls' = calls + 1
    /\ UNCHANGED <<transfer_vars, account_read>>

\* validate_strict_field(value, field_name, allowed_values)
validate_strict_field(value, allowed_values) == value \in allowed_values

\* The row that "UPDATE Account SET ... WHERE id = ?" writes for the fields
\* modify_account puts in its SET clause.
UpdatedAccount(row, update_fields) ==
    [row EXCEPT !.type = Get(update_fields, "Type", @),
                !.account_number = Get(update_fields, "Account_Number", @),
                !.bank_id = Get(update_fields, "Bank_id", @),
                !.user_id = Get(update_fields, "User_id", @),
                !.currency = Get(update_fields, "Currency", @),
                !.amount = Get(update_fields, "Amount", @),
                !.status = Get(update_fields, "Status", @)]

UpdateArguments ==
    { <<>>, [Type |-> "debit"], [Type |-> "savings"], [Bank_id |-> 2], [Bank_id |-> 9],
      [User_id |-> 2], [User_id |-> 9], [Amount |-> 12, Currency |-> "EUR"],
      [Status |-> "gold"], [Account_Number |-> "ACCT0001"],
      [Account_Number |-> "ID-USD-9"] }

IdArguments == {1, 2, 9}

\* modify_account(account_id, update_fields) of lab_4
modify_account(account_id, update_fields) ==
    /\ MayCallAdmin
    /\ LET answer(message) == [op |-> "modify_account", account_id |-> account_id,
                               update_fields |-> update_fields, message |-> message]
           invalid ==
               \/ /\ "Type" \in DOMAIN update_fields
                  /\ ~validate_strict_field(update_fields.Type, AccountTypes)
               \/ /\ "Account_Number" \in DOMAIN update_fields
                  /\ validate_account_number(update_fields.Account_Number) = None
               \/ /\ "Status" \in DOMAIN update_fields
                  /\ ~validate_strict_field(update_fields.Status, StatusValues)
       IN IF DOMAIN update_fields = {}
          THEN db' = db /\ reply' = answer("Nothing to update.")
          ELSE IF invalid
          THEN db' = db /\ reply' = answer("Validation error")
          ELSE IF account_id \notin DOMAIN db.Account
          THEN db' = db /\ reply' = answer("No account found.")
          ELSE LET row == UpdatedAccount(db.Account[account_id], update_fields)
               IN IF AccountConstraints(db, account_id, row)
                  THEN /\ db' = [db EXCEPT !.Account[account_id] = row]
                       /\ reply' = answer("updated successfully.")
                  ELSE db' = db /\ reply' = answer("Error")
    /\ calls' = calls + 1
    /\ UNCHANGED <<transfer_vars, account_read>>

\* "DELETE FROM <table> WHERE <column> = ?" on a table of the store.
DeleteFrom(table, ids) == [i \in (DOMAIN table) \ ids |-> table[i]]

\* delete_account(account_id) of lab_4
delete_account(account_id) ==
    /\ MayCallAdmin
    /\ db' = [db EXCEPT !.Account = DeleteFrom(@, {account_id})]
    /\ reply' = [op |-> "delete_account", id |-> account_id,
                 message |-> IF account_id \in DOMAIN db.Account
                             THEN "deleted." ELSE "No account found."]
    /\ calls' = calls + 1
    /\ UNCHANGED <<transfer_vars, account_read>>

\* delete_bank(bank_id) of lab_4: the accounts of the bank, then the bank.
delete_bank(bank_id) ==
    /\ MayCallAdmin
    /\ db' = [db EXCEPT
                !.Account = DeleteFrom(@, { a \in DOMAIN @ : @[a].bank_id = bank_id }),
                !.Bank = DeleteFrom(@, {bank_id})]
    /\ reply' = [op |-> "delete_bank", id |-> bank_id,
                 message |-> IF bank_id \in DOMAIN db.Bank
                             THEN "and related accounts deleted."
                             ELSE "No bank found."]
    /\ calls' = calls + 1
    /\ UNCHANGED <<transfer_vars, account_read>>

\* delete_user(user_id) of lab_4: the accounts of the user, then the user.
delete_user(user_id) ==
    /\ MayCallAdmin
    /\ db' = [db EXCEPT
                !.Account = DeleteFrom(@, { a \in DOMAIN @ : @[a].user_id = user_id }),
                !.User = DeleteFrom(@, {user_id})]
    /\ reply' = [op |-> "delete_user", id |-> user_id,
                 message |-> IF user_id \in DOMAIN db.User
                             THEN "and their accounts deleted."
                             ELSE "No user found."]
    /\ calls' = calls + 1
    /\ UNCHANGED <<transfer_vars, account_read>>

\* cleanup_incomplete_data and apply_random_discounts as calls of this client.
CleanupCall ==
    /\ MayCallAdmin
    /\ IncompleteDataDeleted
    /\ calls' = calls + 1
    /\ UNCHANGED <<transfer_vars, account_read>>

DiscountsCall(max_users) ==
    /\ MayCallAdmin
    /\ DiscountsApplied(max_users)
    /\ calls' = calls + 1
    /\ UNCHANGED <<transfer_vars, account_read>>

NextAdmin ==
    \/ \E banks_data \in BatchArguments(BankRecords) : add_banks(banks_data)
    \/ \E users_data \in BatchArguments(UserRecords) : add_users(users_data)
    \/ \E accounts_data \in BatchArguments(AccountRecords) : add_accounts(accounts_data)
    \/ \E account_id \in IdArguments, update_fields \in UpdateArguments :
         modify_account(account_id, update_fields)
    \/ \E id \in IdArguments : delete_account(id) \/ delete_bank(id) \/ delete_user(id)
    \/ CleanupCall
    \/ \E max_users \in MaxUsersArguments : DiscountsCall(max_users)

SpecAdmin == InitAdmin /\ [][NextAdmin]_vars

\* ================================================================== claims
Done(p) == pc[p] = "done"
Succeeded(p) == Done(p) /\ result[p].status = "success"
Failed(p) == Done(p) /\ result[p].status = "error"
Complete(data) == missing(data) = {}

\* Both ids of the request name rows of the store the call started from.
AccountsExist(p) ==
    /\ "sender_account_id" \in DOMAIN transfer_data[p]
    /\ "receiver_account_id" \in DOMAIN transfer_data[p]
    /\ transfer_data[p].sender_account_id \in DOMAIN before[p].Account
    /\ transfer_data[p].receiver_account_id \in DOMAIN before[p].Account

BalanceBefore(p, account_id) == before[p].Account[account_id].amount

\* The store with the three writes of a successful call applied to the
\* store the call started from.
AllThreeWrites(p) ==
    LET data == transfer_data[p]
        s == get_account(before[p], data.sender_account_id)
        r == get_account(before[p], data.receiver_account_id)
    IN InsertTransaction(
           UpdateAmount(
               UpdateAmount(before[p], data.sender_account_id,
                            result[p].details.sender_new_balance),
               data.receiver_account_id, result[p].details.receiver_new_balance),
           TransactionRow(s, r, data))

\* A request with all four fields, a positive amount and two different
\* accounts: what the engine is specified to accept.
Ordinary(data) ==
    /\ Complete(data)
    /\ data.amount > 0
    /\ data.sender_account_id # data.receiver_account_id

\* C1: after every call the committed store holds either all three writes
\* of the transfer or none of them (stated for ordinary requests, where no
\* other defect of the call is involved).
C1_AllOrNothing ==
    \A p \in Procs :
        Done(p) /\ Ordinary(transfer_data[p])
            => \/ db = before[p]
               \/ Succeeded(p) /\ db = AllThreeWrites(p)

PreWriteErrors ==
    {"Missing required fields", "One or both accounts not found",
     "Insufficient funds", "Unsupported currency"}

\* C2: a call that returns an error from one of the checks made before the
\* writes leaves every balance and the Transaction table as they were.
C2_PreWriteErrorLeavesStore ==
    \A p \in Procs :
        Failed(p) /\ result[p].message \in PreWriteErrors => db = before[p]

C2_Witness ==
    \E p \in Procs : Failed(p) /\ result[p].message = "Unsupported currency"

\* C3: a successful transfer (of a positive amount) between accounts of one
\* currency keeps the sum of the two balances, and so the sum of all balances.
C3_Conservation ==
    \A p \in Procs :
        Succeeded(p) /\ transfer_data[p].amount > 0 =>
            LET sid == transfer_data[p].sender_account_id
                rid == transfer_data[p].receiver_account_id
            IN before[p].Account[sid].currency = before[p].Account[rid].currency
               => /\ BalanceBefore(p, sid) + BalanceBefore(p, rid)
                       = db.Account[sid].amount + db.Account[rid].amount
                  /\ TotalBalance(db) = TotalBalance(before[p])

\* What a call reports when the store failed one of its statements or its
\* commit.
StoreFaultMessages == {"sqlite3 error", "commit failed"}

\* No statement of any call so far was failed by the store.
NoStoreFault ==
    \A p \in Procs : result[p] = None \/ result[p].message \notin StoreFaultMessages

\* Two overlapping calls that debit one sender in its own currency, each
\* covered by the balance, both together not; the provider answers and the
\* store raises no error.
ScenarioE ==
    /\ \A p \in Procs : Done(p) /\ provider[p] \notin {"no_data", "request_exception"}
    /\ NoStoreFault
    /\ transfer_data[1].sender_account_id = transfer_data[2].sender_account_id
    /\ \A p \in Procs :
         /\ Ordinary(transfer_data[p])
         /\ transfer_data[p].currency
               = InitStore.Account[transfer_data[p].sender_account_id].currency
         /\ transfer_data[p].amount
               <= InitStore.Account[transfer_data[p].sender_account_id].amount
    /\ transfer_data[1].amount + transfer_data[2].amount
           > InitStore.Account[transfer_data[1].sender_account_id].amount

\* C4: of two concurrent transfers from a sender that can pay only one,
\* exactly one succeeds and the other gets insufficient funds or a conflict.
C4_ExactlyOneSucceeds ==
    ScenarioE =>
        \E p \in Procs :
            /\ result[p].status = "success"
            /\ \A q \in Procs \ {p} :
                 /\ result[q].status = "error"
                 /\ result[q].message \in {"Insufficient funds", "database is locked"}

\* Every call begun so far is an ordinary request.
AllOrdinary ==
    \A p \in Procs : transfer_data[p] = None \/ Ordinary(transfer_data[p])

SameCurrency(data) ==
    InitStore.Account[data.sender_account_id].currency
        = InitStore.Account[data.receiver_account_id].currency

\* C5: of two concurrent ordinary transfers, each writes only balances that
\* were computed from the current content of the store, and when both
\* succeed within one currency the sum of all balances is unchanged.
C5_IsolatedReadsAndWrites ==
    AllOrdinary /\ NoStoreFault =>
        /\ \A p \in Procs :
             pending[p] # None =>
                 /\ sender[p].amount
                        = db.Account[transfer_data[p].sender_account_id].amount
                 /\ receiver[p].amount
                        = db.Account[transfer_data[p].receiver_account_id].amount
        /\ (\A p \in Procs : Succeeded(p) /\ SameCurrency(transfer_data[p]))
               => TotalBalance(db) = TotalBalance(InitStore)

\* C6: a transfer succeeds only if the sender's balance covers the amount
\* converted into the sender's currency.
C6_CoveredInSenderCurrency ==
    \A p \in Procs :
        Succeeded(p) =>
            LET data == transfer_data[p]
                table == result[p].details.exchange_rate
                sid == data.sender_account_id
            IN BalanceBefore(p, sid)
                   >= Convert(data.amount, table[data.currency],
                              table[before[p].Account[sid].currency])

\* C7: a request for more than the sender's balance, both accounts existing,
\* fails, changes nothing, and reports 'Insufficient funds'.
C7_InsufficientFundsRejected ==
    \A p \in Procs :
        ( /\ Done(p)
          /\ AccountsExist(p)
          /\ "amount" \in DOMAIN transfer_data[p]
          /\ transfer_data[p].amount > BalanceBefore(p, transfer_data[p].sender_account_id) )
        => /\ result[p].status = "error"
           /\ db = before[p]
           /\ Complete(transfer_data[p]) => result[p].message = "Insufficient funds"

C7_Witness ==
    \E p \in Procs :
        /\ Failed(p) /\ AccountsExist(p) /\ Complete(transfer_data[p])
        /\ transfer_data[p].amount > BalanceBefore(p, transfer_data[p].sender_account_id)
        /\ result[p].message = "Insufficient funds"
        /\ transfer_data[p].currency = "EUR"

\* C8: when the rate provider call fails the transfer returns an error and
\* changes nothing, whatever the three currencies are (stated for ordinary
\* requests and a store that raises no error).
C8_ProviderFailureIsError ==
    \A p \in Procs :
        ( /\ Done(p)
          /\ provider[p] = "request_exception"
          /\ Ordinary(transfer_data[p])
          /\ result[p].message \notin StoreFaultMessages )
        => result[p].status = "error" /\ db = before[p]

\* A request with a missing field or an amount that is not positive.
Invalid(data) ==
    \/ ~Complete(data)
    \/ "amount" \in DOMAIN data /\ data.amount <= 0

\* C9: a request with a missing field or a non-positive amount is rejected
\* before any account is read or written.
C9_InvalidRejectedFirst ==
    \A p \in Procs :
        pc[p] # "idle" /\ Invalid(transfer_data[p])
            => /\ pc[p] \in {"validate", "exit", "done"}
               /\ sender[p] = None /\ receiver[p] = None /\ pending[p] = None
               /\ Done(p) => result[p].status = "error" /\ db = before[p]

\* C10: a transfer from an account to itself is rejected and changes nothing
\* (stated for a positive amount and a store that raises no error).
C10_SelfTransferRejected ==
    \A p \in Procs :
        ( /\ Done(p)
          /\ Complete(transfer_data[p])
          /\ transfer_data[p].amount > 0
          /\ transfer_data[p].sender_account_id = transfer_data[p].receiver_account_id
          /\ result[p].message \notin StoreFaultMessages )
        => result[p].status = "error" /\ db = before[p]

\* Messages that contain 'not found', and those that say which side is
\* missing (the messages of the earlier transfer_money of this class).
ContainsNotFound ==
    {"One or both accounts not found", "Sender account not found",
     "Receiver account not found"}
NamesSender == {"Sender account not found"}
NamesReceiver == {"Receiver account not found"}

SenderMissing(p) == transfer_data[p].sender_account_id \notin DOMAIN before[p].Account
ReceiverMissing(p) == transfer_data[p].receiver_account_id \notin DOMAIN before[p].Account

\* C11: a request whose sender or receiver id names no account is answered
\* with an error whose message contains 'not found' and names the missing
\* side, whatever the amount, and nothing is written.
C11_NotFoundNamesSide ==
    \A p \in Procs :
        Done(p) /\ Complete(transfer_data[p]) /\ (SenderMissing(p) \/ ReceiverMissing(p))
            => /\ result[p].status = "error"
               /\ result[p].message \in ContainsNotFound
               /\ db = before[p]
               /\ SenderMissing(p) => result[p].message \in NamesSender
               /\ ReceiverMissing(p) /\ ~SenderMissing(p)
                      => result[p].message \in NamesReceiver

\* The request's or the receiver's currency is not a key of the snapshot
\* the call fetched.
Unsupported(p) ==
    \/ transfer_data[p].currency \notin DOMAIN rates[p]
    \/ receiver[p].currency \notin DOMAIN rates[p]

\* C12: once the snapshot is fetched and lacks the requested or the
\* receiver's currency, the call holds the 'Unsupported currency' error, has
\* written nothing, and the store is as the call found it; the store is
\* still so when the call has returned that error.
C12_UnsupportedCurrencyRejected ==
    \A p \in Procs :
        /\ (rates[p] # None /\ Unsupported(p))
               => /\ pc[p] = "exit"
                  /\ result[p] = ErrorResult("Unsupported currency")
                  /\ pending[p] = None
                  /\ db = before[p]
        /\ (Failed(p) /\ result[p].message = "Unsupported currency") => db = before[p]

C12_Witness ==
    \E p \in Procs :
        /\ rates[p] # None
        /\ transfer_data[p].currency \in DOMAIN rates[p]
        /\ receiver[p].currency \notin DOMAIN rates[p]
        /\ result[p] = ErrorResult("Unsupported currency")

\* C13: after a successful transfer the sender's balance is lower by the
\* requested amount converted into the sender's currency and the receiver's
\* balance is higher by the amount converted into the receiver's currency
\* (stated for a positive amount).
C13_BalancesMoveByConvertedAmount ==
    \A p \in Procs :
        Succeeded(p) /\ transfer_data[p].amount > 0 =>
            LET data == transfer_data[p]
                table == result[p].details.exchange_rate
                sid == data.sender_account_id
                rid == data.receiver_account_id
            IN /\ db.Account[sid].amount
                     = BalanceBefore(p, sid)
                       - Convert(data.amount, table[data.currency],
                                 table[before[p].Account[sid].currency])
               /\ db.Account[rid].amount
                     = BalanceBefore(p, rid)
                       + Convert(data.amount, table[data.currency],
                                 table[before[p].Account[rid].currency])

\* C14: the last row of the ledger after a successful transfer holds the
\* requested amount and currency, the two account ids of the request and
\* the names of the two accounts' banks as the store had them.
C14_RowCarriesRequest ==
    \A p \in Procs :
        Succeeded(p) =>
            LET data == transfer_data[p]
                bank_of(account_id) ==
                    before[p].Bank[before[p].Account[account_id].bank_id]
            IN /\ Len(db.Transaction) = Len(before[p].Transaction) + 1
               /\ db.Transaction[Len(db.Transaction)]
                     = [bank_sender_name |-> bank_of(data.sender_account_id),
                        account_sender_id |-> data.sender_account_id,
                        bank_receiver_name |-> bank_of(data.receiver_account_id),
                        account_receiver_id |-> data.receiver_account_id,
                        sent_currency |-> data.currency,
                        sent_amount |-> data.amount]

\* A success whose requested currency is not the sender's, between accounts
\* of two banks, the amount debited differing from the amount requested.
C14_Witness ==
    \E p \in Procs :
        /\ Succeeded(p)
        /\ transfer_data[p].currency
               # before[p].Account[transfer_data[p].sender_account_id].currency
        /\ before[p].Account[transfer_data[p].sender_account_id].bank_id
               # before[p].Account[transfer_data[p].receiver_account_id].bank_id
        /\ BalanceBefore(p, transfer_data[p].sender_account_id)
               - db.Account[transfer_data[p].sender_account_id].amount
               # transfer_data[p].amount

\* A step that ends a transfer call: the wrapper of a transfer_money call
\* of the API leaves its with-block, or the lab_4 transfer_money returns.
ApiTransferEnds(p) == pc[p] = "exit" /\ pc'[p] = "done"
Lab4TransferEnds ==
    calls' = calls + 1 /\ reply' # None /\ reply'.op = "lab4_transfer_money"

\* The call that ends in this step completed the transfer.
TransferCompleted ==
    \/ \E p \in Procs : ApiTransferEnds(p) /\ result'[p].status = "success"
    \/ Lab4TransferEnds /\ reply'.status = "success"

\* C15: every transfer call that completes the transfer adds exactly one
\* row to the ledger and every other transfer call adds none, so the rows
\* added count the completed transfers.
C15_OneRowPerCompletedTransfer ==
    [][ ((\E p \in Procs : ApiTransferEnds(p)) \/ Lab4TransferEnds)
            => Len(db'.Transaction)
                   = Len(db.Transaction) + (IF TransferCompleted THEN 1 ELSE 0) ]_vars

IsPrefix(s, t) == Len(s) <= Len(t) /\ SubSeq(t, 1, Len(s)) = s

\* C16: in every step of every operation (transfer, read, discounts,
\* cleanup) the rows of the ledger stay as they are, in place; the ledger
\* grows only in the commit of a successful transfer, by one row.
C16_LedgerAppendOnly ==
    [][ /\ IsPrefix(db.Transaction, db'.Transaction)
        /\ db'.Transaction # db.Transaction
               => /\ Len(db'.Transaction) = Len(db.Transaction) + 1
                  /\ \E p \in Procs :
                       ApiTransferEnds(p) /\ result'[p].status = "success" ]_vars

\* cleanup_incomplete_data has deleted account 3; the row of the earlier
\* transfer to that account is still in the ledger.
C16_Witness ==
    /\ reply # None
    /\ reply.op = "cleanup_incomplete_data"
    /\ 3 \notin DOMAIN db.Account
    /\ db.Transaction = InitTransaction

\* C17: the success dict carries the snapshot the conversion used, and when
\* the call has returned it, get_account returns for the sender and for the
\* receiver the balances the dict reports (stated for a positive amount).
C17_ReportedBalancesAreStored ==
    \A p \in Procs :
        /\ (pc[p] = "exit" /\ result[p].status = "success")
               => result[p].details.exchange_rate = rates[p]
        /\ (Succeeded(p) /\ transfer_data[p].amount > 0)
               => /\ get_account(db, transfer_data[p].sender_account_id).amount
                         = result[p].details.sender_new_balance
                  /\ get_account(db, transfer_data[p].receiver_account_id).amount
                         = result[p].details.receiver_new_balance

\* C18: whatever fails during a call (validation, lookup, funds, currency,
\* provider, write conflict, a statement or the commit of the store), the
\* caller gets a dict with a status and a message, the status being 'error'
\* when the store failed; no exception reaches the caller (stated for
\* ordinary requests).
C18_FailuresAreErrorResults ==
    \A p \in Procs :
        Done(p) /\ Ordinary(transfer_data[p])
            => /\ result[p].status \in {"success", "error"}
               /\ result[p].message \in StoreFaultMessages => result[p].status = "error"

\* The accounts a call may write to.
Touched(p) ==
    IF Complete(transfer_data[p])
    THEN {transfer_data[p].sender_account_id, transfer_data[p].receiver_account_id}
    ELSE {}

\* C19: when a transfer call has ended, Bank and User rows are as before the
\* call, the same accounts exist, every account other than the sender and
\* the receiver is unchanged, and those two differ from before in nothing
\* but the amount.
C19_OnlyBalancesAndLedgerChange ==
    \A p \in Procs :
        Done(p) =>
            /\ db.Bank = before[p].Bank
            /\ db.User = before[p].User
            /\ DOMAIN db.Account = DOMAIN before[p].Account
            /\ \A a \in DOMAIN before[p].Account :
                 /\ a \notin Touched(p) => db.Account[a] = before[p].Account[a]
                 /\ [db.Account[a] EXCEPT !.amount = before[p].Account[a].amount]
                        = before[p].Account[a]

\* A success that changed the balances of two different accounts.
C19_Witness ==
    \E p \in Procs :
        /\ Succeeded(p)
        /\ transfer_data[p].sender_account_id # transfer_data[p].receiver_account_id
        /\ \A a \in Touched(p) : db.Account[a].amount # before[p].Account[a].amount
        /\ db.Transaction # before[p].Transaction

\* A step in which the client, between two calls, calls get_account.
ReadStep ==
    pc[1] = "idle" /\ pc' = pc /\ calls' = calls /\ account_read' # None

\* This read is of the id of the read before it, no transfer in between.
SameIdAsLastRead ==
    account_read # None /\ account_read'.account_id = account_read.account_id

\* C20 as stated: get_account leaves the store unchanged, and returns what
\* the read of the same id before it returned if no transfer was made in
\* between.
C20_RereadAfterNoTransfer ==
    [][ ReadStep
            => /\ db' = db
               /\ SameIdAsLastRead => account_read'.row = account_read.row ]_vars

\* C20 amended: get_account leaves the store unchanged, and returns what the
\* read of the same id before it returned if no call that writes the store
\* (transfer, apply_random_discounts, cleanup_incomplete_data) was made in
\* between.
C20_RereadAfterNoWrite ==
    [][ ReadStep
            => /\ db' = db
               /\ (SameIdAsLastRead /\ ~account_read.written_since)
                      => account_read'.row = account_read.row ]_vars

\* The same account has been read twice in a row, after an earlier call
\* changed the store.
C20_Witness ==
    /\ account_read # None
    /\ account_read.repeated
    /\ account_read.row # None
    /\ db # InitStore

\* C21: when the provider's response has no 'data' mapping the transfer
\* returns an error and changes nothing; the 1:1 table completes no
\* transfer (stated for ordinary requests and a store that raises no error).
C21_MalformedResponseIsError ==
    \A p \in Procs :
        ( /\ Done(p)
          /\ provider[p] = "no_data"
          /\ Ordinary(transfer_data[p])
          /\ result[p].message \notin StoreFaultMessages )
        => /\ result[p].status = "error"
           /\ db = before[p]

\* C23: while the call is at the provider request it has no write
\* transaction open and holds no lock, and whenever it has one open the
\* provider request has returned.
C23_RatesBeforeWrites ==
    \A p \in Procs :
        /\ pc[p] = "get_rates" => pending[p] = None /\ lock # p
        /\ pending[p] # None => provider[p] # "not_called" /\ rates[p] # None

\* The first UPDATE has been issued, after the provider answered.
C23_Witness ==
    \E p \in Procs :
        /\ pc[p] = "update_receiver"
        /\ pending[p] # None
        /\ lock = p
        /\ provider[p] = "ok"

\* What the lab_4 transfer_money is to answer to a request on a store when
\* the first failing check decides, the checks being: amount, sender
\* exists, sender's balance, receiver exists.
Lab4FirstFailingCheck(store, from_account_id, to_account_id, amount) ==
    IF amount <= 0 THEN "Amount must be positive."
    ELSE IF from_account_id \notin DOMAIN store.Account THEN "From account not found."
    ELSE IF store.Account[from_account_id].amount < amount THEN "Insufficient funds"
    ELSE IF to_account_id \notin DOMAIN store.Account THEN "To account not found."
    ELSE "none"

\* C28: a lab_4 transfer call is rejected exactly when one of the four
\* checks fails, with the message of the first that fails in the order
\* amount, sender, balance, receiver, and a rejected call changes no row.
C28_Lab4ChecksInOrder ==
    [][ Lab4TransferEnds
            => LET first_failing ==
                       Lab4FirstFailingCheck(db, reply'.from_account_id,
                                             reply'.to_account_id, reply'.amount)
               IN /\ (reply'.status = "rejected") = (first_failing # "none")
                  /\ reply'.status = "rejected"
                         => reply'.message = first_failing /\ db' = db ]_vars

\* An underfunded sender and a receiver that does not exist: the answer is
\* insufficient funds.
C28_Witness ==
    /\ reply # None
    /\ reply.op = "lab4_transfer_money"
    /\ reply.from_account_id \in DOMAIN db.Account
    /\ reply.to_account_id \notin DOMAIN db.Account
    /\ db.Account[reply.from_account_id].amount < reply.amount
    /\ reply.message = "Insufficient funds"

\* C29: a lab_4 transfer call that returns 'Transfer failed' leaves every
\* balance as it was before the call.
C29_Lab4FailedTransferChangesNothing ==
    [][ (Lab4TransferEnds /\ reply'.status = "failed")
            => db'.Account = db.Account ]_vars

\* No lab_4 call so far was failed by the store or by the lock.
NoLab4Failure ==
    \A p \in Procs : result[p] = None \/ result[p].status # "failed"

\* C30: whatever the interleaving of the lab_4 transfer calls over existing
\* accounts (none of them failed by the store), the sum of all balances is
\* the initial one, no balance that was non-negative is negative, and a
\* call from an account to itself, alone, leaves the store as it was.
C30_Lab4SumAndSignKept ==
    NoLab4Failure =>
        /\ TotalBalance(db) = TotalBalance(InitStore)
        /\ \A a \in DOMAIN db.Account :
             InitStore.Account[a].amount >= 0 => db.Account[a].amount >= 0
        /\ \A p \in Procs :
             ( /\ pc[p] = "done"
               /\ transfer_data[p].from_account_id = transfer_data[p].to_account_id
               /\ \A q \in Procs \ {p} : pc[q] = "idle" )
             => db = InitStore

\* The date lies within the range; a date that is not given bounds nothing.
WithinDates(row, start_date, end_date) ==
    /\ start_date # 0 => row.datetime >= start_date
    /\ end_date # 0 => row.datetime <= end_date

\* C26: get_transactions returns exactly the rows of which the account is
\* the sender or the receiver and whose datetime lies in the range.
C26_TransactionsOfAccountInRange ==
    (reply # None /\ reply.op = "get_transactions") =>
        { reply.rows[k] : k \in DOMAIN reply.rows }
            = { db.Transaction[i] : i \in
                  { j \in DOMAIN db.Transaction :
                      /\ \/ db.Transaction[j].account_sender_id = reply.account_id
                         \/ db.Transaction[j].account_receiver_id = reply.account_id
                      /\ WithinDates(db.Transaction[j], reply.start_date, reply.end_date) } }

\* A bank's capital: the sum over all its accounts of the balance in USD.
CapitalUSD(store, bank_id, table) ==
    LET ids == { a \in DOMAIN store.Account : store.Account[a].bank_id = bank_id }
        in_usd == [a \in ids |->
                     [amount |-> ToUSD(store.Account[a].amount,
                                       store.Account[a].currency, table)]]
    IN SumAmounts(in_usd, ids)

\* C25: the bank get_bank_with_largest_capital returns is one whose capital
\* in USD, summed over all its accounts in all currencies, no other bank
\* exceeds (stated for a provider that answered).
C25_LargestCapitalOverAllCurrencies ==
    ( /\ reply # None
      /\ reply.op = "get_bank_with_largest_capital"
      /\ reply.provider = "ok" )
    => /\ reply.status = "success"
       /\ \A b \in BanksWithAccounts(db) :
            CapitalUSD(db, b, ProviderData("USD"))
                <= CapitalUSD(db, reply.bank_id, ProviderData("USD"))

\* ---- C24
\* The records of a batch: the elements of the list, or the one dict.
BatchRecords(argument) == { argument.value[i] : i \in DOMAIN argument.value }

ValidBank(r) == "name" \in DOMAIN r
ValidUser(r) == "user_full_name" \in DOMAIN r /\ Len(r.user_full_name) = 2
ValidAccount(r) ==
    /\ AccountFields \subseteq DOMAIN r
    /\ r.type \in AccountTypes
    /\ "status" \in DOMAIN r => r.status \in StatusValues
    /\ AccountNumberShape[r.account_number].alphanumeric
    /\ AccountNumberShape[r.account_number].length \in 8..12

\* How many rows a batch has to add: one per valid user, one per bank name
\* and per account number of a valid record that the table does not hold yet.
RowsDue(op, argument, store) ==
    CASE op = "add_users" ->
           Cardinality({ i \in DOMAIN argument.value : ValidUser(argument.value[i]) })
      [] op = "add_banks" ->
           Cardinality({ r.name : r \in { b \in BatchRecords(argument) : ValidBank(b) } }
                       \ { store.Bank[b] : b \in DOMAIN store.Bank })
      [] op = "add_accounts" ->
           Cardinality({ r.account_number :
                           r \in { a \in BatchRecords(argument) : ValidAccount(a) } }
                       \ { store.Account[a].account_number : a \in DOMAIN store.Account })

BatchTable(op, store) ==
    CASE op = "add_users" -> store.User
      [] op = "add_banks" -> store.Bank
      [] op = "add_accounts" -> store.Account

BatchInsert == calls' = calls + 1 /\ reply'.op \in {"add_banks", "add_users", "add_accounts"}

\* C24: a batch insert returns status 'success', adds one row for every
\* valid and non-conflicting record of the batch whatever else the batch
\* holds, and lists in 'data' exactly the rows it added.
C24_BatchInsertsSkipInvalidRecords ==
    [][BatchInsert =>
         LET new == (DOMAIN BatchTable(reply'.op, db')) \ DOMAIN BatchTable(reply'.op, db)
         IN /\ reply'.status = "success"
            /\ Cardinality(new) = RowsDue(reply'.op, reply'.argument, db)
            /\ { reply'.data[i].id : i \in DOMAIN reply'.data } = new
            /\ Len(reply'.data) = Cardinality(new)]_vars

\* ---- C22
\* C22: every Account row's user_id is the id of a User row and its bank_id
\* the id of a Bank row, whatever add_accounts, modify_account, delete_bank,
\* delete_user, delete_account and cleanup_incomplete_data have done.
C22_AccountsReferToUserAndBank ==
    \A a \in DOMAIN db.Account :
        /\ db.Account[a].user_id \in DOMAIN db.User
        /\ db.Account[a].bank_id \in DOMAIN db.Bank

\* ---- C27
\* A discount is NULL (written 0) or one of the three tiers.
DiscountsInRange ==
    \A a \in DOMAIN db.Account : db.Account[a].discount \in DiscountValues \cup {0}

DiscountStep == calls' = calls + 1 /\ reply'.op = "apply_random_discounts"

\* C27: every account's discount is absent or one of 25, 30, 50, and a call
\* of apply_random_discounts leaves every account that is not a credit
\* account and every balance as they were, adds and removes no account, and
\* gives all credit accounts of a user it picked the one value it reports.
C27_DiscountsOnCreditAccountsOnly ==
    /\ []DiscountsInRange
    /\ [][DiscountStep =>
            /\ DOMAIN db'.Account = DOMAIN db.Account
            /\ \A a \in DOMAIN db.Account :
                 /\ db'.Account[a].amount = db.Account[a].amount
                 /\ db.Account[a].type # "credit" => db'.Account[a] = db.Account[a]
                 /\ db'.Account[a] = [db.Account[a] EXCEPT !.discount = db'.Account[a].discount]
                 /\ \A entry \in reply'.data :
                      db.Account[a].type = "credit" /\ db.Account[a].user_id = entry.user_id
                          => db'.Account[a].discount = entry.discount]_vars

\* apply_random_discounts has given the two credit accounts of user 1 a
\* discount and left the user's debit account without one.
C27_Witness ==
    /\ reply # None
    /\ reply.op = "apply_random_discounts"
    /\ \E entry \in reply.data : entry.user_id = 1
    /\ {1, 2, 3} \subseteq DOMAIN db.Account
    /\ db.Account[2].type = "credit" /\ db.Account[3].type = "credit"
    /\ db.Account[2].user_id = 1 /\ db.Account[3].user_id = 1
    /\ db.Account[2].discount \in DiscountValues
    /\ db.Account[3].discount = db.Account[2].discount
    /\ db.Account[1].type = "debit" /\ db.Account[1].user_id = 1
    /\ db.Account[1].discount = 0

====
